---- MODULE Spec2Model ----
(***************************************************************************)
(* A model of the ingestion pipeline (Backend/app/ingest.py) and of the    *)
(* search handler (Backend/app/main.py) of the personal search engine.     *)
(*                                                                         *)
(* A text is a sequence of Unicode code points (integers).  Python's 0     *)
(* based indices are kept for the loop variable of chunk_text; sequences   *)
(* themselves are 1-based as usual in TLA+.                                *)
(***************************************************************************)
EXTENDS Integers, Sequences, FiniteSets, TLC

VARIABLES
    \* ---- chunk_text, run on its own (SpecChunk) ----
    ctext,          \* the text argument
    csize,          \* the chunk_size argument
    coverlap,       \* the overlap argument
    cwords,         \* local `words`
    ci,             \* local `i` (0-based word index)
    cchunks,        \* local `chunks`
    citer,          \* number of iterations of the while loop taken so far
    cpc,            \* "off" | "call" | "loop" | "done"
    \* ---- encode_chunks_parallel ----
    echunks,        \* the chunks argument
    emax,           \* the max_workers argument
    eraises,        \* the submitted indices whose embedder.encode call raises
    efinished,      \* indices whose future has finished and is not yet yielded
    eyielded,       \* indices whose future as_completed has yielded
    final_chunks,   \* local `final_chunks`
    final_embeddings, \* local `final_embeddings`
    epc,            \* "off" | "call" | "pool" | "returned" | "raised"
    \* ---- the data folder, the index and ingest_folder ----
    now,            \* time.time(), in whole seconds
    disk,           \* DATA_DIR: path -> what is there
    collection,     \* the Chroma collection: a set of entries, unique by id
    pc,             \* ingest_folder: "off" | "idle" | "scan" | "encode"
    doc_id_counter, \* local `doc_id_counter`
    todo,           \* the paths the two for loops have still to visit (when
                    \* a run has raised: the paths it never visited)
    cur,            \* local `path` of the file being encoded
    outcome,        \* how the last finished run ended: "none" | "returned" | "raised"
    \* ---- observers of ingest_folder (no code reads them) ----
    before,         \* at the start of the current/last run: the collection,
                    \* the outcome and embedder faults of the run before it,
                    \* and the names written since that run started
    changed,        \* names written to disk since the last run started
    faulty,         \* an embedder call raised in the current/last run
    uploads,        \* number of /upload requests so far
    runs,           \* number of runs of ingest_folder started so far
    \* ---- search (main.py) ----
    snow,           \* time.time() during the request, in seconds
    sstore,         \* what the index holds, ranked by distance to the query
    sreq,           \* the SearchRequest
    swhere,         \* local `where`
    scands,         \* the candidates collection.query returned, zipped
    sk,             \* number of candidates the for loop has visited
    seen_texts,     \* local `seen_texts`
    scored,         \* local `scored`
    sresults,       \* the "results" of the response
    spc             \* "off" | "call" | "loop" | "done"

chunkVars == <<ctext, csize, coverlap, cwords, ci, cchunks, citer, cpc>>

encodeVars == <<echunks, emax, eraises, efinished, eyielded,
                final_chunks, final_embeddings, epc>>

ingestVars == <<now, disk, collection, pc, doc_id_counter, todo,
                cur, outcome, before, changed, faulty, uploads, runs>>

searchVars == <<snow, sstore, sreq, swhere, scands, sk, seen_texts, scored,
                sresults, spc>>

vars == <<chunkVars, encodeVars, ingestVars, searchVars>>

\* ------------------------------------------------------------------ bounds

\* Longest text handed to chunk_text in SpecChunk.
MaxTextLen == 5
\* Largest chunk_size and overlap handed to chunk_text in SpecChunk.
MaxChunkArg == 3
\* Longest list of chunks handed to encode_chunks_parallel in SpecEncode.
MaxChunks == 3
\* Number of /upload requests, of runs of ingest_folder and of clock ticks.
MaxUploads == 2
MaxRuns == 2
\* Number of runs of ingest_folder over the long file of SpecLong.
MaxLongRuns == 1
MaxTime == 2
\* Number of entries the index holds in SpecSearch.
MaxStore == 3
\* Number of half days the modification times of AgeGrid reach back.
MaxAgeSteps == 8

\* ------------------------------------------------------------- characters

\* Code points that str.split() and str.strip() treat as whitespace
\* (tab, newline, space).
Whitespace == {9, 10, 32}

\* Lone surrogates: str.encode("utf-8", errors="ignore") drops them.
Surrogates == 55296..57343

\* unicodedata.normalize("NFKD", c) for one code point: the compatibility
\* ligature U+FB01 decomposes to "f" "i", the no-break space U+00A0 to a
\* space; every other code point of the model is its own decomposition.
NFKD(c) ==
    CASE c = 64257 -> <<102, 105>>
      [] c = 160   -> <<32>>
      [] OTHER     -> <<c>>

\* One code point through NFKD and then through the utf-8 encode/decode
\* round trip with errors="ignore", which drops lone surrogates.
CleanChar(c) == SelectSeq(NFKD(c), LAMBDA d : d \notin Surrogates)

RECURSIVE CleanRange(_, _, _)
\* The cleaned text[lo..hi], by halves (both steps of the cleaning work
\* code point by code point, so the halves are independent).
CleanRange(text, lo, hi) ==
    IF lo > hi THEN <<>>
    ELSE IF lo = hi THEN CleanChar(text[lo])
    ELSE LET mid == (lo + hi) \div 2
         IN  CleanRange(text, lo, mid) \o CleanRange(text, mid + 1, hi)

\* clean_text_for_storage(text)
clean_text_for_storage(text) ==
    IF text = <<>> THEN <<>> ELSE CleanRange(text, 1, Len(text))

RECURSIVE LStrip(_)
LStrip(s) ==
    IF s # <<>> /\ Head(s) \in Whitespace THEN LStrip(Tail(s)) ELSE s

RECURSIVE RStrip(_)
RStrip(s) ==
    IF s # <<>> /\ s[Len(s)] \in Whitespace
    THEN RStrip(SubSeq(s, 1, Len(s) - 1)) ELSE s

\* str.strip()
Strip(s) == RStrip(LStrip(s))

RECURSIVE SplitRange(_, _, _)
\* The maximal runs of non-whitespace of text[lo..hi], in order, by halves:
\* a run that crosses the middle is the last run of the left half glued to
\* the first run of the right half.
SplitRange(text, lo, hi) ==
    IF lo > hi THEN <<>>
    ELSE IF lo = hi
         THEN IF text[lo] \in Whitespace THEN <<>> ELSE <<<<text[lo]>>>>
    ELSE LET mid   == (lo + hi) \div 2
             left  == SplitRange(text, lo, mid)
             right == SplitRange(text, mid + 1, hi)
         IN  IF text[mid] \notin Whitespace /\ text[mid + 1] \notin Whitespace
             THEN SubSeq(left, 1, Len(left) - 1)
                    \o <<left[Len(left)] \o right[1]>>
                    \o SubSeq(right, 2, Len(right))
             ELSE left \o right

\* str.split(): the maximal runs of non-whitespace, in order.
Split(text) == SplitRange(text, 1, Len(text))

RECURSIVE JoinRange(_, _, _)
\* ws[lo..hi] with one space between neighbours, by halves.
JoinRange(ws, lo, hi) ==
    IF lo > hi THEN <<>>
    ELSE IF lo = hi THEN ws[lo]
    ELSE LET mid == (lo + hi) \div 2
         IN  JoinRange(ws, lo, mid) \o <<32>> \o JoinRange(ws, mid + 1, hi)

\* " ".join(words)
Join(ws) == JoinRange(ws, 1, Len(ws))

Min(a, b) == IF a < b THEN a ELSE b
Max(a, b) == IF a > b THEN a ELSE b

\* Python's s[lo:hi] for lo >= 0 (hi may be negative: it then counts from
\* the end of s).
PySlice(s, lo, hi) ==
    LET n   == Len(s)
        lo1 == Min(lo, n)
        hi1 == IF hi < 0 THEN Max(hi + n, 0) ELSE Min(hi, n)
    IN  IF lo1 < hi1 THEN SubSeq(s, lo1 + 1, hi1) ELSE <<>>

\* ------------------------------------------------------------- chunk_text

\* A chunker that forgets the overlap when it advances.
ChunkStepNoOverlap(chunk_size, overlap) == Max(chunk_size, 1)

\* A chunker whose step is floored at 0 instead of 1.
ChunkStepFloorZero(chunk_size, overlap) == Max(chunk_size - overlap, 0)

\* step = max(chunk_size - overlap, 1)
ChunkStep(chunk_size, overlap) == Max(chunk_size - overlap, 1)

\* The chunk built in the iteration whose window starts at word index i.
WindowChunk(words, i, chunk_size) ==
    Strip(Join(PySlice(words, i, i + chunk_size)))

\* One iteration of the while loop: `chunks` after the iteration.
ChunkKeep(chunks, chunk) ==
    IF chunk # <<>> THEN Append(chunks, chunk) ELSE chunks

RECURSIVE ChunkLoop(_, _, _, _, _)
\* while i < len(words): ...
ChunkLoop(words, i, chunk_size, overlap, chunks) ==
    IF i < Len(words)
    THEN ChunkLoop(words, i + ChunkStep(chunk_size, overlap), chunk_size, overlap,
                   ChunkKeep(chunks, WindowChunk(words, i, chunk_size)))
    ELSE chunks

\* chunk_text(text, chunk_size, overlap)
chunk_text(text, chunk_size, overlap) ==
    IF text = <<>> THEN <<>>
    ELSE LET words == Split(text)
         IN  IF words = <<>> THEN <<>>
             ELSE ChunkLoop(words, 0, chunk_size, overlap, <<>>)

\* ---------------------------------------------------- encode_single_chunk

\* Python's None, in the place of an embedding.
None == <<"None">>

\* embedder.encode([text])[0].tolist(): the embedder is an outside
\* capability, deterministic in its input; a vector is modelled by the text
\* it was computed from.
Embed(text) == <<"vec", text>>

\* An exception leaving the function a future runs: fut.result() re-raises it.
Raised == <<"raised">>

\* Line 70: whether encode_single_chunk reaches the embedder for chunk.
CallsEmbedder(chunk) == Strip(clean_text_for_storage(chunk)) # <<>>

\* encode_single_chunk without its try/except: the embedder's exception
\* leaves the function.
encode_single_chunk_uncaught(chunk, raises) ==
    LET clean_chunk == clean_text_for_storage(chunk)
    IN  IF Strip(clean_chunk) = <<>> THEN <<clean_chunk, None>>
        ELSE IF raises THEN Raised
        ELSE <<clean_chunk, Embed(clean_chunk)>>

\* encode_single_chunk(chunk), given whether embedder.encode raises:
\* the pair (clean_chunk, embedding or None).
encode_single_chunk(chunk, raises) ==
    LET clean_chunk == clean_text_for_storage(chunk)
    IN  IF Strip(clean_chunk) = <<>> THEN <<clean_chunk, None>>
        ELSE IF raises THEN <<clean_chunk, None>>
        ELSE <<clean_chunk, Embed(clean_chunk)>>

\* A collector that forgets to skip the text of a failed chunk.
CollectChunkAlways(chunks, res) == Append(chunks, res[1])

\* Lines 98-100: final_chunks after one result of as_completed.
CollectChunk(chunks, res) ==
    IF res[2] = None THEN chunks ELSE Append(chunks, res[1])

\* Lines 98-101: final_embeddings after one result of as_completed.
CollectEmbedding(embeddings, res) ==
    IF res[2] = None THEN embeddings ELSE Append(embeddings, res[2])

\* encode_chunks_parallel is not running.
EncodeOff ==
    /\ echunks = <<>> /\ emax = 0 /\ eraises = {} /\ efinished = {}
    /\ eyielded = {} /\ final_chunks = <<>> /\ final_embeddings = <<>>
    /\ epc = "off"

\* ------------------------------------------------ the data folder on disk

\* File names are <<stem, suffix>>, paths are <<subfolder, name>>.
PdfName == <<"a", ".pdf">>
MdName  == <<"m", ".md">>
TxtName == <<"b", ".txt">>
JpgName == <<"c", ".jpg">>

\* upload_files, line 178: the subfolder a file name is stored in.
UploadDir(name) ==
    IF name[2] = ".pdf" THEN "pdfs"
    ELSE IF name[2] = ".md" THEN "markdown"
    ELSE "notes"

\* A directory inside notes/, put there by hand.
SubDirPath == <<"notes", <<"sub", "">>>>

Paths ==
    {<<UploadDir(name), name>> : name \in {PdfName, MdName, TxtName, JpgName}}
        \cup {SubDirPath}

\* What a path holds.  A file's bytes are modelled by `pages`: for a PDF the
\* text of each page (<<>> for a page without extractable text) and whether
\* PdfReader can parse the file at all; for any other file one "page", the
\* decoded characters, with -1 standing for a byte sequence that is not
\* valid utf-8.
Absent == [kind |-> "absent", parses |-> TRUE, pages |-> <<>>, mtime |-> 0]
Directory == [kind |-> "dir", parses |-> TRUE, pages |-> <<>>, mtime |-> 0]
FileOf(data, mtime) ==
    [kind |-> "file", parses |-> data.parses, pages |-> data.pages, mtime |-> mtime]

\* "ab cd ef", a note.
NoteOne == <<97, 98, 32, 99, 100, 32, 101, 102>>
\* The note rewritten: an undecodable byte, then "xy" and the ligature U+FB01.
NoteTwo == <<-1, 120, 121, 32, 64257>>
\* A file of blanks.
NoteBlank == <<32, 10>>
\* Six hundred one-character words (CJK ideographs, which NFKD leaves alone).
SixHundredWords == Join([k \in 1..600 |-> <<19968 + k>>])

\* The files that /upload requests bring, as <<name, bytes>>: short files
\* of every kind.
UploadMenu ==
    { <<PdfName, [parses |-> TRUE,  pages |-> <<NoteOne, <<>>, <<103, 104>>>>]>>,
      <<PdfName, [parses |-> FALSE, pages |-> <<>>]>>,
      <<MdName,  [parses |-> TRUE,  pages |-> <<NoteOne>>]>>,
      <<TxtName, [parses |-> TRUE,  pages |-> <<NoteOne>>]>>,
      <<TxtName, [parses |-> TRUE,  pages |-> <<NoteTwo>>]>>,
      <<TxtName, [parses |-> TRUE,  pages |-> <<NoteBlank>>]>>,
      <<JpgName, [parses |-> TRUE,  pages |-> <<NoteOne>>]>> }

\* ------------------------------------------------- read_pdf, read_text_file

RECURSIVE JoinPages(_, _)
\* "\n".join(pages[k..])
JoinPages(pages, k) ==
    IF k > Len(pages) THEN <<>>
    ELSE IF k = Len(pages) THEN pages[k]
    ELSE pages[k] \o <<10>> \o JoinPages(pages, k + 1)

\* read_pdf(path) for a file PdfReader can parse: the cleaned text of the
\* pages that have any, joined by newlines.
read_pdf(f) ==
    LET cleaned == [k \in 1..Len(f.pages) |-> clean_text_for_storage(f.pages[k])]
    IN  JoinPages(SelectSeq(cleaned, LAMBDA t : Strip(t) # <<>>), 1)

\* read_text_file(path): the bytes decoded as utf-8 with errors="ignore",
\* then cleaned.
read_text_file(f) ==
    clean_text_for_storage(SelectSeq(f.pages[1], LAMBDA c : c >= 0))

\* ------------------------------------------------------------ the index

\* collection.add(ids, documents, embeddings, metadatas) of a persistent
\* Chroma collection: a record whose id is already stored is left as it
\* is, the others are stored.
CollectionAdd(coll, entries) ==
    coll \cup {e \in entries : \A x \in coll : x.id # e.id}

\* No data folder, no index, ingest_folder never called.
IngestOff ==
    /\ now = 0
    /\ disk = [p \in Paths |-> Absent]
    /\ collection = {}
    /\ pc = "off"
    /\ doc_id_counter = 0
    /\ todo = <<>>
    /\ cur = SubDirPath
    /\ outcome = "none"
    /\ before = [index |-> {}, outcome |-> "none", changed |-> {}, faulty |-> FALSE]
    /\ changed = {}
    /\ faulty = FALSE
    /\ uploads = 0
    /\ runs = 0

\* No search request.
SearchOff ==
    /\ snow = 0 /\ sstore = <<>> /\ sreq = <<>> /\ swhere = <<>>
    /\ scands = <<>> /\ sk = 0 /\ seen_texts = {} /\ scored = <<>>
    /\ sresults = <<>> /\ spc = "off"

\* -------------------------------------------- chunk_text, step by step

\* The characters of the texts of SpecChunk: a space and two letters.
ChunkAlphabet == {32, 97, 98}

RECURSIVE TextsUpTo(_, _)
\* All texts over alphabet of length at most n.
TextsUpTo(alphabet, n) ==
    IF n = 0 THEN {<<>>}
    ELSE LET shorter == TextsUpTo(alphabet, n - 1)
         IN  shorter \cup {Append(t, c) : t \in shorter, c \in alphabet}

\* The worked example of the chunker: twelve one-letter words "a" .. "l",
\* to be chunked with chunk_size = 5 and overlap = 2.
TwelveWords == Join([k \in 1..12 |-> <<96 + k>>])

\* The calls of chunk_text that SpecChunk makes: every short text with every
\* small chunk_size >= 0 and overlap >= 0, and the worked example.
ChunkCalls ==
    (TextsUpTo(ChunkAlphabet, MaxTextLen) \X (0..MaxChunkArg) \X (0..MaxChunkArg))
        \cup {<<TwelveWords, 5, 2>>}

\* chunk_text is not running.
ChunkOff ==
    /\ ctext = <<>> /\ csize = 0 /\ coverlap = 0 /\ cwords = <<>>
    /\ ci = 0 /\ cchunks = <<>> /\ citer = 0 /\ cpc = "off"

ChunkInit ==
    /\ \E call \in ChunkCalls :
          ctext = call[1] /\ csize = call[2] /\ coverlap = call[3]
    /\ cwords = <<>>
    /\ ci = 0
    /\ cchunks = <<>>
    /\ citer = 0
    /\ cpc = "call"

\* Lines 47-56: the two early returns, words, i, step.
ChunkEnter ==
    /\ cpc = "call"
    /\ cwords' = IF ctext = <<>> THEN <<>> ELSE Split(ctext)
    /\ cpc' = IF ctext = <<>> \/ Split(ctext) = <<>> THEN "done" ELSE "loop"
    /\ UNCHANGED <<ctext, csize, coverlap, ci, cchunks, citer>>
    /\ UNCHANGED <<encodeVars, ingestVars, searchVars>>

\* Lines 58-63: one iteration of the while loop.
ChunkIterate ==
    /\ cpc = "loop"
    /\ ci < Len(cwords)
    /\ cchunks' = ChunkKeep(cchunks, WindowChunk(cwords, ci, csize))
    /\ ci' = ci + ChunkStep(csize, coverlap)
    /\ citer' = citer + 1
    /\ UNCHANGED <<ctext, csize, coverlap, cwords, cpc>>
    /\ UNCHANGED <<encodeVars, ingestVars, searchVars>>

\* Line 65: the loop condition fails, chunks is returned.
ChunkReturn ==
    /\ cpc = "loop"
    /\ ~(ci < Len(cwords))
    /\ cpc' = "done"
    /\ UNCHANGED <<ctext, csize, coverlap, cwords, ci, cchunks, citer>>
    /\ UNCHANGED <<encodeVars, ingestVars, searchVars>>

ChunkNext == ChunkEnter \/ ChunkIterate \/ ChunkReturn

InitChunk == ChunkInit /\ EncodeOff /\ IngestOff /\ SearchOff

SpecChunk == InitChunk /\ [][ChunkNext]_vars

\* The calls of chunk_text with arguments of either sign, on the texts made
\* of a space and one letter.
ChunkCallsAnySign ==
    TextsUpTo({32, 97}, MaxTextLen)
        \X ((0 - MaxChunkArg)..MaxChunkArg) \X ((0 - MaxChunkArg)..MaxChunkArg)

InitChunkAnySign ==
    /\ \E call \in ChunkCallsAnySign :
          ctext = call[1] /\ csize = call[2] /\ coverlap = call[3]
    /\ cwords = <<>> /\ ci = 0 /\ cchunks = <<>> /\ citer = 0
    /\ cpc = "call"
    /\ EncodeOff /\ IngestOff /\ SearchOff

\* chunk_text runs on one thread that nothing stops: a step that can be
\* taken is taken.
SpecChunkFair ==
    InitChunkAnySign /\ [][ChunkNext]_vars /\ WF_vars(ChunkNext)

\* ------------------------------------------------- encode_chunks_parallel

\* The texts of the chunk lists of SpecEncode: "a"; the ligature U+FB01,
\* which cleaning rewrites to "fi"; and a lone surrogate followed by a
\* space, which cleaning leaves with nothing but whitespace.
EncodeTexts == {<<97>>, <<64257>>, <<55296, 32>>}

RECURSIVE ListsUpTo(_, _)
\* All lists over elems of length at most n.
ListsUpTo(elems, n) ==
    IF n = 0 THEN {<<>>}
    ELSE LET shorter == ListsUpTo(elems, n - 1)
         IN  shorter \cup {Append(l, e) : l \in shorter, e \in elems}

EncodeInit ==
    /\ echunks \in ListsUpTo(EncodeTexts, MaxChunks)
    /\ emax \in {1, 4}
    /\ eraises = {}
    /\ efinished = {}
    /\ eyielded = {}
    /\ final_chunks = <<>>
    /\ final_embeddings = <<>>
    /\ epc = "call"

\* Lines 88-95: the early return for no chunks; otherwise every chunk is
\* submitted to the pool.  Which embedder calls will raise is the
\* embedder's choice; it is only called for chunks that are not empty
\* after cleaning.
EncodeCall ==
    /\ epc = "call"
    /\ IF echunks = <<>>
       THEN /\ epc' = "returned"
            /\ eraises' = {}
       ELSE /\ epc' = "pool"
            /\ eraises' \in SUBSET {idx \in 1..Len(echunks) : CallsEmbedder(echunks[idx])}
    /\ efinished' = {}
    /\ eyielded' = {}
    /\ final_chunks' = <<>>
    /\ final_embeddings' = <<>>
    /\ faulty' = (faulty \/ eraises' # {})
    /\ UNCHANGED <<echunks, emax>>
    /\ UNCHANGED <<now, disk, collection, pc, doc_id_counter, todo,
                   cur, outcome, before, changed, uploads, runs>>
    /\ UNCHANGED <<chunkVars, searchVars>>

\* A pool worker finishes encode_single_chunk for the chunk at idx.  The
\* pool takes the submitted items in order and runs at most max_workers at
\* a time, so idx can be running only if fewer than max_workers earlier
\* items are unfinished.
WorkerFinish(idx) ==
    /\ epc = "pool"
    /\ idx \in 1..Len(echunks)
    /\ idx \notin efinished \cup eyielded
    /\ Cardinality({j \in 1..(idx - 1) : j \notin efinished \cup eyielded}) < emax
    /\ efinished' = efinished \cup {idx}
    /\ UNCHANGED <<echunks, emax, eraises, eyielded, final_chunks,
                   final_embeddings, epc>>
    /\ UNCHANGED <<chunkVars, ingestVars, searchVars>>

\* Lines 96-101: as_completed yields a finished future; fut.result() gives
\* its result (or re-raises what the future raised, which leaves
\* encode_chunks_parallel); the result is appended to both lists unless the
\* embedding is None.
Collect(idx) ==
    /\ epc = "pool"
    /\ idx \in efinished
    /\ efinished' = efinished \ {idx}
    /\ eyielded' = eyielded \cup {idx}
    /\ LET res == encode_single_chunk(echunks[idx], idx \in eraises)
       IN  IF res = Raised
           THEN /\ epc' = "raised"
                /\ UNCHANGED <<final_chunks, final_embeddings>>
           ELSE /\ final_chunks' = CollectChunk(final_chunks, res)
                /\ final_embeddings' = CollectEmbedding(final_embeddings, res)
                /\ UNCHANGED epc
    /\ UNCHANGED <<echunks, emax, eraises>>
    /\ UNCHANGED <<chunkVars, ingestVars, searchVars>>

\* Line 103: every future has been yielded; the pool shuts down and the
\* two lists are returned.
EncodeReturn ==
    /\ epc = "pool"
    /\ eyielded = 1..Len(echunks)
    /\ epc' = "returned"
    /\ UNCHANGED <<echunks, emax, eraises, efinished, eyielded,
                   final_chunks, final_embeddings>>
    /\ UNCHANGED <<chunkVars, ingestVars, searchVars>>

EncodeNext ==
    \/ EncodeCall
    \/ \E idx \in 1..Len(echunks) : WorkerFinish(idx)
    \/ \E idx \in 1..Len(echunks) : Collect(idx)
    \/ EncodeReturn

InitEncode == EncodeInit /\ ChunkOff /\ IngestOff /\ SearchOff

SpecEncode == InitEncode /\ [][EncodeNext]_vars

\* ---------------------------------------------------------- ingest_folder

\* chunk_text's defaults, which ingest_folder's call (line 125) relies on.
DefaultChunkSize == 512
DefaultOverlap == 64
\* max_workers of the call at line 139.
IngestMaxWorkers == 4

\* The sequences that list every element of S once.
Orders(S) ==
    {o \in [1..Cardinality(S) -> S] : \A a, b \in 1..Cardinality(S) : o[a] = o[b] => a = b}

\* What folder.glob("*") lists for a subfolder (nothing if it does not exist).
Listing(sub) == {p \in Paths : p[1] = sub /\ disk[p].kind # "absent"}

\* The orders in which the two for loops can visit the data folder: pdfs,
\* markdown, notes in this order, each listed in an order the file system
\* chooses.
ScanOrders ==
    {a \o b \o c : a \in Orders(Listing("pdfs")), b \in Orders(Listing("markdown")),
                    c \in Orders(Listing("notes"))}

\* The clock advances by a second while nothing else runs.
Tick ==
    /\ pc = "idle"
    /\ now < MaxTime
    /\ now' = now + 1
    /\ UNCHANGED <<disk, collection, pc, doc_id_counter, todo, cur,
                   outcome, before, changed, faulty, uploads, runs>>
    /\ UNCHANGED <<chunkVars, encodeVars, searchVars>>

\* upload_files for a request with one file: the file is written into the
\* subfolder its name selects (replacing what was there); the run of
\* ingest_folder it schedules is a later IngestStart.
Upload(name, data) ==
    /\ pc = "idle"
    /\ uploads < MaxUploads
    /\ disk' = [disk EXCEPT ![<<UploadDir(name), name>>] = FileOf(data, now)]
    /\ changed' = changed \cup {name}
    /\ uploads' = uploads + 1
    /\ UNCHANGED <<now, collection, pc, doc_id_counter, todo, cur, outcome,
                   before, faulty, runs>>
    /\ UNCHANGED <<chunkVars, encodeVars, searchVars>>

\* ingest_folder is called: as the background task an upload scheduled
\* (main.py line 185) or from the command line (ingest.py line 183), so a
\* run can start whenever none is running.  Line 107 and the listing of
\* the folders.
IngestStart ==
    /\ pc = "idle"
    /\ doc_id_counter' = now
    /\ todo' \in ScanOrders
    /\ pc' = "scan"
    /\ before' = [index |-> collection, outcome |-> outcome,
                  changed |-> changed, faulty |-> faulty]
    /\ changed' = {}
    /\ faulty' = FALSE
    /\ runs' = runs + 1
    /\ UNCHANGED <<now, disk, collection, cur, outcome, uploads>>
    /\ UNCHANGED <<chunkVars, encodeVars, searchVars>>

\* Lines 113-139, one pass of the inner for loop up to the call of
\* encode_chunks_parallel: a directory is skipped; read_pdf raises for a
\* file PdfReader cannot parse, which ends ingest_folder; a file without
\* chunks is skipped; otherwise its chunks go to encode_chunks_parallel.
ProcessFile ==
    /\ pc = "scan"
    /\ todo # <<>>
    /\ LET path == Head(todo)
           f    == disk[path]
       IN  IF f.kind # "file"
           THEN /\ todo' = Tail(todo)
                /\ UNCHANGED <<pc, cur, outcome, encodeVars>>
           ELSE IF path[2][2] = ".pdf" /\ ~f.parses
           THEN /\ pc' = "idle"
                /\ outcome' = "raised"
                /\ todo' = Tail(todo)
                /\ UNCHANGED <<cur, encodeVars>>
           ELSE LET raw_text == IF path[2][2] = ".pdf" THEN read_pdf(f)
                                ELSE read_text_file(f)
                    chunks   == chunk_text(raw_text, DefaultChunkSize, DefaultOverlap)
                IN  /\ todo' = Tail(todo)
                    /\ IF chunks = <<>>
                       THEN UNCHANGED <<pc, cur, outcome, encodeVars>>
                       ELSE /\ pc' = "encode"
                            /\ cur' = path
                            /\ echunks' = chunks
                            /\ emax' = IngestMaxWorkers
                            /\ epc' = "call"
                            /\ UNCHANGED <<outcome, eraises, efinished, eyielded,
                                           final_chunks, final_embeddings>>
    /\ UNCHANGED <<now, disk, collection, doc_id_counter, before,
                   changed, faulty, uploads, runs>>
    /\ UNCHANGED <<chunkVars, searchVars>>

\* Line 123 (and 120): the type stored for a file name.
DocType(name) ==
    IF name[2] = ".pdf" THEN "pdf"
    ELSE IF name[2] = ".md" THEN "markdown"
    ELSE "notes"

\* Lines 158-171: the entries built for the file at path from the two lists
\* encode_chunks_parallel returned (of equal length n here).
NewEntries(path, counter, cleaned_chunks, embeddings_list) ==
    { [id        |-> <<counter, i - 1>>,
       document  |-> clean_text_for_storage(cleaned_chunks[i]),
       embedding |-> embeddings_list[i],
       source    |-> path[2],
       path      |-> path,
       type      |-> DocType(path[2]),
       mtime     |-> disk[path].mtime] : i \in 1..Len(cleaned_chunks) }

\* Lines 139-179, the rest of the pass once encode_chunks_parallel is back:
\* nothing is added when a list is empty; lists of unequal length are cut to
\* the shorter; ids are built from doc_id_counter, which is then
\* incremented; the entries are added to the collection.
AddToIndex ==
    /\ pc = "encode"
    /\ epc \in {"returned", "raised"}
    /\ IF epc = "raised"
       THEN /\ pc' = "idle"
            /\ outcome' = "raised"
            /\ UNCHANGED <<collection, doc_id_counter>>
       ELSE LET n == Min(Len(final_chunks), Len(final_embeddings))
                cleaned_chunks  == SubSeq(final_chunks, 1, n)
                embeddings_list == SubSeq(final_embeddings, 1, n)
            IN  /\ pc' = "scan"
                /\ UNCHANGED outcome
                /\ IF n = 0
                   THEN UNCHANGED <<collection, doc_id_counter>>
                   ELSE /\ collection' = CollectionAdd(collection,
                               NewEntries(cur, doc_id_counter, cleaned_chunks,
                                          embeddings_list))
                        /\ doc_id_counter' = doc_id_counter + 1
    /\ echunks' = <<>> /\ emax' = 0 /\ eraises' = {} /\ efinished' = {}
    /\ eyielded' = {} /\ final_chunks' = <<>> /\ final_embeddings' = <<>>
    /\ epc' = "off"
    /\ UNCHANGED <<now, disk, todo, cur, before, changed, faulty,
                   uploads, runs>>
    /\ UNCHANGED <<chunkVars, searchVars>>

\* The for loops are exhausted: ingest_folder returns.
IngestReturn ==
    /\ pc = "scan"
    /\ todo = <<>>
    /\ pc' = "idle"
    /\ outcome' = "returned"
    /\ UNCHANGED <<now, disk, collection, doc_id_counter, todo, cur,
                   before, changed, faulty, uploads, runs>>
    /\ UNCHANGED <<chunkVars, encodeVars, searchVars>>

\* ingest_folder and the index before the first run, over the data folder d.
IngestInit(d) ==
    /\ now = 0
    /\ disk = d
    /\ collection = {}
    /\ pc = "idle"
    /\ doc_id_counter = 0
    /\ todo = <<>>
    /\ cur = SubDirPath
    /\ outcome = "none"
    /\ before = [index |-> {}, outcome |-> "none", changed |-> {}, faulty |-> FALSE]
    /\ changed = {}
    /\ faulty = FALSE
    /\ uploads = 0
    /\ runs = 0

EmptyDisk == [p \in Paths |-> Absent]

\* The data folder at the start: empty, or holding the directory notes/sub.
Init ==
    /\ ChunkOff
    /\ EncodeOff
    /\ SearchOff
    /\ \E d \in {EmptyDisk, [EmptyDisk EXCEPT ![SubDirPath] = Directory]} :
          IngestInit(d)

\* Uploads, clock ticks and runs of ingest_folder, one run at a time.
Next ==
    \/ Tick
    \/ \E file \in UploadMenu : Upload(file[1], file[2])
    \/ runs < MaxRuns /\ IngestStart
    \/ ProcessFile
    \/ EncodeCall
    \/ \E idx \in 1..Len(echunks) : WorkerFinish(idx)
    \/ \E idx \in 1..Len(echunks) : Collect(idx)
    \/ EncodeReturn
    \/ AddToIndex
    \/ IngestReturn

Spec == Init /\ [][Next]_vars

\* The data folder of SpecLong: notes/b.txt holds six hundred words (it was
\* copied there before the service started), with or without notes/sub.
LongDisk ==
    [EmptyDisk EXCEPT ![<<"notes", TxtName>>] =
        FileOf([parses |-> TRUE, pages |-> <<SixHundredWords>>], 0)]

\* Either ingest_folder is about to run over the long file, or
\* encode_chunks_parallel is called on its own with a list of chunks.
InitLong ==
    \/ /\ ChunkOff
       /\ EncodeOff
       /\ SearchOff
       /\ \E d \in {LongDisk, [LongDisk EXCEPT ![SubDirPath] = Directory]} :
             IngestInit(d)
    \/ InitEncode

NextLong ==
    \/ Tick
    \/ runs < MaxLongRuns /\ IngestStart
    \/ ProcessFile
    \/ EncodeCall
    \/ \E idx \in 1..Len(echunks) : WorkerFinish(idx)
    \/ \E idx \in 1..Len(echunks) : Collect(idx)
    \/ EncodeReturn
    \/ AddToIndex
    \/ IngestReturn

\* Inputs with more than one chunk: ingest_folder over a file of six
\* hundred words, and encode_chunks_parallel over lists of chunks.
SpecLong == InitLong /\ [][NextLong]_vars

\* ------------------------------------------------------ floats as fractions
\* A Python float is modelled by the exact fraction <<n, d>> it stands for,
\* d > 0, in lowest terms; rounding is not modelled.
RECURSIVE GCD(_, _)
GCD(a, b) == IF b = 0 THEN a ELSE GCD(b, a % b)

Abs(x) == IF x < 0 THEN 0 - x ELSE x

Frac(n, d) == LET g == GCD(Abs(n), d) IN <<n \div g, d \div g>>

FOne == <<1, 1>>

FAdd(x, y) == Frac(x[1] * y[2] + y[1] * x[2], x[2] * y[2])

FSub(x, y) == Frac(x[1] * y[2] - y[1] * x[2], x[2] * y[2])

FMul(x, y) == Frac(x[1] * y[1], x[2] * y[2])

\* x / y for y > 0.
FDiv(x, y) == Frac(x[1] * y[2], x[2] * y[1])

\* x < y, by continued fractions so that no product is formed.
RECURSIVE FLess(_, _)
FLess(x, y) ==
    LET qx == x[1] \div x[2]
        qy == y[1] \div y[2]
        rx == x[1] % x[2]
        ry == y[1] % y[2]
    IN  IF qx # qy THEN qx < qy
        ELSE IF ry = 0 THEN FALSE
        ELSE IF rx = 0 THEN TRUE
        ELSE FLess(<<y[2], ry>>, <<x[2], rx>>)

FMin(x, y) == IF FLess(y, x) THEN y ELSE x

\* ----------------------------------------------------- compute_recency_weight
SecondsPerDay == 86400

\* A weight without the floor: the ramp goes on beyond the window.
recency_weight_no_floor(mtime, max_age_days) ==
    IF max_age_days = <<>> THEN FOne
    ELSE LET age_days == Frac(snow - mtime, SecondsPerDay)
         IN  IF age_days[1] < 0 THEN FOne
             ELSE FSub(FOne,
                       FMul(FDiv(age_days,
                                 FAdd(<<max_age_days[1], 1>>, <<1, 1000000>>)),
                            <<4, 5>>))

\* A weight whose ramp has the wrong sign: it rises with the age, from 0.2.
recency_weight_rising(mtime, max_age_days) ==
    IF max_age_days = <<>> THEN FOne
    ELSE LET age_days == Frac(snow - mtime, SecondsPerDay)
         IN  IF age_days[1] < 0 THEN FOne
             ELSE IF FLess(<<max_age_days[1], 1>>, age_days) THEN <<1, 5>>
             ELSE FAdd(<<1, 5>>,
                       FMul(FDiv(age_days,
                                 FAdd(<<max_age_days[1], 1>>, <<1, 1000000>>)),
                            <<4, 5>>))

\* An Optional value is <<>> for None and <<v>> for the value v.
compute_recency_weight(mtime, max_age_days) ==
    IF max_age_days = <<>> THEN FOne
    ELSE LET age_days == Frac(snow - mtime, SecondsPerDay)
         IN  IF age_days[1] < 0 THEN FOne
             ELSE IF FLess(<<max_age_days[1], 1>>, age_days) THEN <<1, 5>>
             ELSE FSub(FOne,
                       FMul(FDiv(age_days,
                                 FAdd(<<max_age_days[1], 1>>, <<1, 1000000>>)),
                            <<4, 5>>))

\* -------------------------------------------------------------------- search
\* str.lower() on the letters A-Z.
ToLower(c) == IF c \in 65..90 THEN c + 32 ELSE c

Lower(text) == [k \in 1..Len(text) |-> ToLower(text[k])]

\* Python's `w in d` for strings.
Contains(w, d) ==
    \E k \in 0..(Len(d) - Len(w)) : SubSeq(d, k + 1, k + Len(w)) = w

\* d.split("\n")
RECURSIVE SplitLines(_)
SplitLines(d) ==
    IF \A k \in 1..Len(d) : d[k] # 10 THEN <<d>>
    ELSE LET k == CHOOSE j \in 1..Len(d) :
                      d[j] = 10 /\ \A h \in 1..(j - 1) : d[h] # 10
         IN  <<SubSeq(d, 1, k - 1)>> \o SplitLines(SubSeq(d, k + 1, Len(d)))

\* set(req.query.lower().split())
QWords(query) ==
    LET words == Split(Lower(query)) IN {words[k] : k \in 1..Len(words)}

\* The first n elements of a list: lst[:n].
FirstN(lst, n) == SubSeq(lst, 1, Min(n, Len(lst)))

\* where = {}; if req.types: ...; if req.max_age_days: ...
BuildWhere(req) ==
    [type  |-> IF req.types # <<>> /\ req.types[1] # <<>>
               THEN <<[in |-> req.types[1]]>> ELSE <<>>,
     mtime |-> IF req.max_age_days # <<>> /\ req.max_age_days[1] # 0
               THEN <<[gte |-> snow - req.max_age_days[1] * SecondsPerDay]>>
               ELSE <<>>]

\* A stored entry satisfies the metadata filter (the index's side).
Matches(where, m) ==
    /\ where.type = <<>>
          \/ \E k \in 1..Len(where.type[1].in) : where.type[1].in[k] = m.type
    /\ where.mtime = <<>> \/ m.mtime >= where.mtime[1].gte

\* collection.query(n_results=req.top_k, where=where or None): the top_k
\* nearest entries among those the filter lets through.
CollectionQuery(store, where, top_k) ==
    FirstN(SelectSeq(store, LAMBDA e : Matches(where, e.metadata)), top_k)

base_score(dist) == FDiv(FOne, FAdd(FOne, dist))

keyword_boost(q_words, d) ==
    FMin(Frac(Cardinality({w \in q_words : Contains(w, Lower(d))}),
              Cardinality(q_words) + 1),
         <<1, 2>>)

final_score(q_words, d, m, dist, max_age_days) ==
    FMul(FAdd(FMul(base_score(dist), <<7, 10>>),
              FMul(keyword_boost(q_words, d), <<3, 10>>)),
         compute_recency_weight(m.mtime, max_age_days))

Snippets(q_words, d) ==
    LET split == SplitLines(d)
        stripped == [k \in 1..Len(split) |-> Strip(split[k])]
        lines == SelectSeq(stripped, LAMBDA l : Len(l) > 5)
    IN  FirstN(SelectSeq(lines,
                         LAMBDA l : \E w \in q_words : Contains(w, Lower(l))),
               3)

\* A sort that puts an element before the elements of equal score.
InsertBeforeTies(lst, x) ==
    LET k == Cardinality({j \in 1..Len(lst) : FLess(x.score, lst[j].score)})
    IN  SubSeq(lst, 1, k) \o <<x>> \o SubSeq(lst, k + 1, Len(lst))

\* sorted(scored, key=lambda x: x["score"], reverse=True): descending and
\* stable.
InsertByScore(lst, x) ==
    LET k == Cardinality({j \in 1..Len(lst) : ~FLess(lst[j].score, x.score)})
    IN  SubSeq(lst, 1, k) \o <<x>> \o SubSeq(lst, k + 1, Len(lst))

RECURSIVE Sorted(_)
Sorted(lst) ==
    IF lst = <<>> THEN <<>>
    ELSE InsertByScore(Sorted(SubSeq(lst, 1, Len(lst) - 1)), lst[Len(lst)])

\* ---- what SpecSearch searches
SearchNow == 10 * SecondsPerDay

DocLines == <<97, 98, 32, 99, 100, 32, 101, 102, 10, 122, 122>>
DocUpper == <<65, 66>>
DocOther == <<120, 121>>
DocTail  == <<122, 122, 32, 97, 98>>
DocPlain == <<112, 113>>

Stored(n, document, type, mtime, distance) ==
    [id       |-> <<n, 0>>,
     document |-> document,
     metadata |-> [source |-> "f", path |-> <<"notes", "f">>,
                   type |-> type, mtime |-> mtime],
     distance |-> distance]

\* Entries in the order of their distance to the query; their mtimes are
\* whole half days away from SearchNow.
Pool ==
    << Stored(1, DocLines, "pdf",      SearchNow - SecondsPerDay,       <<0, 1>>),
       Stored(2, DocLines, "notes",    SearchNow,                       <<1, 2>>),
       Stored(3, DocOther, "notes",    SearchNow + 43200,               <<1, 2>>),
       Stored(6, DocPlain, "markdown", SearchNow,                       <<1, 2>>),
       Stored(4, DocUpper, "markdown", SearchNow - 3 * SecondsPerDay,   <<1, 1>>),
       Stored(5, DocTail,  "pdf",      SearchNow - 43200,               <<3, 1>>) >>

Stores ==
    { SelectSeq(Pool, LAMBDA e : e.id[1] \in S) :
        S \in {T \in SUBSET (1..Len(Pool)) : Cardinality(T) <= MaxStore} }

Queries == { <<97, 98>>, <<65, 98, 32, 122, 122>>, <<32>> }

Requests ==
    [query        : Queries,
     top_k        : {1, 2, 10},
     types        : {<<>>, << <<>> >>, << <<"pdf">> >>,
                     << <<"notes", "markdown">> >>},
     max_age_days : {<<>>, <<0>>, <<1>>, <<2>>}]

SearchInit ==
    /\ snow = SearchNow
    /\ sstore \in Stores
    /\ sreq \in Requests
    /\ swhere = <<>> /\ scands = <<>> /\ sk = 0 /\ seen_texts = {}
    /\ scored = <<>> /\ sresults = <<>>
    /\ spc = "call"

\* Lines 118-139: the filter, the query, the loop's locals.
SearchQuery ==
    /\ spc = "call"
    /\ swhere' = BuildWhere(sreq)
    /\ scands' = CollectionQuery(sstore, swhere', sreq.top_k)
    /\ sk' = 0
    /\ seen_texts' = {}
    /\ scored' = <<>>
    /\ spc' = "loop"
    /\ UNCHANGED <<snow, sstore, sreq, sresults>>
    /\ UNCHANGED <<chunkVars, encodeVars, ingestVars>>

\* A loop that never takes a text for seen.
NeverSeen(d, seen) == FALSE

\* Line 142: `d in seen_texts`.
IsSeen(d, seen) == d \in seen

\* Lines 141-156: one iteration of the loop over the candidates.
SearchScore ==
    /\ spc = "loop"
    /\ sk < Len(scands)
    /\ LET c == scands[sk + 1]
           d == c.document
           m == c.metadata
           q_words == QWords(sreq.query)
       IN  IF IsSeen(d, seen_texts)
           THEN UNCHANGED <<seen_texts, scored>>
           ELSE /\ seen_texts' = seen_texts \cup {d}
                /\ scored' = Append(scored,
                      [id |-> c.id, text |-> d,
                       snippets |-> Snippets(q_words, d),
                       source |-> m.source, type |-> m.type, path |-> m.path,
                       score |-> final_score(q_words, d, m, c.distance,
                                             sreq.max_age_days)])
    /\ sk' = sk + 1
    /\ UNCHANGED <<snow, sstore, sreq, swhere, scands, sresults, spc>>
    /\ UNCHANGED <<chunkVars, encodeVars, ingestVars>>

\* Line 158.
SearchReturn ==
    /\ spc = "loop"
    /\ sk = Len(scands)
    /\ sresults' = Sorted(scored)
    /\ spc' = "done"
    /\ UNCHANGED <<snow, sstore, sreq, swhere, scands, sk, seen_texts, scored>>
    /\ UNCHANGED <<chunkVars, encodeVars, ingestVars>>

SearchNext == SearchQuery \/ SearchScore \/ SearchReturn

InitSearch == SearchInit /\ ChunkOff /\ EncodeOff /\ IngestOff

SpecSearch == InitSearch /\ [][SearchNext]_vars

\* ---------------------------------------------------------------- claims

RECURSIVE SumLen(_, _)
\* The total length of the words ws[k..].
SumLen(ws, k) == IF k > Len(ws) THEN 0 ELSE Len(ws[k]) + SumLen(ws, k + 1)

\* W is the words ws joined by single spaces: it splits back into ws, its
\* only whitespace is the space, and it has one separator between
\* neighbours and none at either end.
IsSingleSpaceJoin(W, ws) ==
    /\ Split(W) = ws
    /\ \A p \in 1..Len(W) : W[p] \in Whitespace => W[p] = 32
    /\ Len(W) = SumLen(ws, 1) + (IF ws = <<>> THEN 0 ELSE Len(ws) - 1)

\* C7: every chunk returned by chunk_text has a trimmed length above 10
\* characters; shorter fragments are discarded.
C7_ChunkMinLength ==
    cpc = "done" => \A k \in 1..Len(cchunks) : Len(Strip(cchunks[k])) > 10

\* The step the chunker is specified to advance by.
C8_Step == IF csize - coverlap > 1 THEN csize - coverlap ELSE 1

\* The number of window starts 0, step, 2*step, ... below n.
C8_Starts(n) == IF n = 0 THEN 0 ELSE ((n - 1) \div C8_Step) + 1

\* C8: chunk_text looks at exactly the windows starting at word index 0,
\* step, 2*step, ... below n (step = max(chunkSize - overlap, 1)), window k
\* holding the next min(chunkSize, n - start) words joined by single spaces,
\* and returns the non-empty ones in increasing start order; an empty or
\* whitespace-only text gives the empty sequence.
C8_ChunkWindows ==
    LET n == Len(cwords)
    IN  /\ cpc = "loop" => ci = citer * C8_Step
        /\ cpc = "done" =>
              /\ cwords = Split(ctext)
              /\ citer = C8_Starts(n)
              /\ Len(cchunks) = IF csize = 0 THEN 0 ELSE C8_Starts(n)
              /\ \A k \in 1..Len(cchunks) :
                    LET start == (k - 1) * C8_Step
                        cnt   == Min(csize, n - start)
                    IN  IsSingleSpaceJoin(cchunks[k],
                            [j \in 1..cnt |-> cwords[start + j]])
              /\ (\A p \in 1..Len(ctext) : ctext[p] \in Whitespace)
                    => cchunks = <<>>
              /\ cchunks = chunk_text(ctext, csize, coverlap)

\* The entries of index whose source is name.
EntriesOf(index, name) == {e \in index : e.source = name}

\* The data folder holds nothing but files with a recognised extension.
OnlyRecognisedFiles ==
    \A p \in Paths :
        disk[p].kind # "absent" => p[2][2] \in {".pdf", ".md", ".txt"}

\* C1: when ingest_folder has run once and runs again with no file added,
\* removed or modified in between (and no embedder call raising in either
\* run), the index holds, for every document, the same number of entries
\* with the same texts after the second run as after the first.
C1_Idempotent ==
    ( /\ pc = "idle" /\ outcome = "returned"
      /\ before.outcome = "returned" /\ before.changed = {}
      /\ ~faulty /\ ~before.faulty
      /\ OnlyRecognisedFiles )
    => \A p \in Paths :
         /\ Cardinality(EntriesOf(collection, p[2]))
              = Cardinality(EntriesOf(before.index, p[2]))
         /\ {e.document : e \in EntriesOf(collection, p[2])}
              = {e.document : e \in EntriesOf(before.index, p[2])}

\* C2: re-ingestion replaces a document's entries in full: after a
\* completed run the index never holds, for one source, entries of two
\* versions of the file: entries with different texts that differ in the
\* modification time stored with them, i.e. a mixture of old and new chunks.
C2_FullReplace ==
    (pc = "idle" /\ outcome = "returned" /\ OnlyRecognisedFiles)
    => \A e1, e2 \in collection :
         (e1.source = e2.source /\ e1.document # e2.document)
            => e1.mtime = e2.mtime

\* C3: the document part of an entry id is a function of the file name
\* alone: any two entries of one source share it, whichever run made them.
C3_StableIds ==
    \A e1, e2 \in collection :
        (e1.source = e2.source /\ e1.source[2] \in {".pdf", ".md", ".txt"})
            => e1.id[1] = e2.id[1]

\* C4: ingest_folder never raises, and no run ends with a file of its scan
\* left unvisited.
C4_FailureIsolation ==
    /\ outcome # "raised"
    /\ pc = "idle" => \A k \in 1..Len(todo) : disk[todo[k]].kind # "file"

\* C6: whatever the order in which the workers complete, the two lists of
\* encode_chunks_parallel have equal length and the vector at each place is
\* the embedding of the text at that place; and every entry of the index
\* stores the embedding of its own text.
C6_Association ==
    /\ Len(final_chunks) = Len(final_embeddings)
    /\ \A k \in 1..Len(final_chunks) : final_embeddings[k] = Embed(final_chunks[k])
    /\ \A e \in collection : e.embedding = Embed(e.document)

\* C6 witness: the long file was indexed in a run whose second chunk (the
\* window starting at word 448) completed first, so that it got ordinal 0.
C6_Witness ==
    /\ Cardinality(collection) = 2
    /\ \E e \in collection : e.id[2] = 0 /\ e.document[1] = 19968 + 449
    /\ \E e \in collection : e.id[2] = 1 /\ e.document[1] = 19968 + 1

\* C9: ingest_folder chunks with chunkSize 200 and overlap 40: after the
\* first run over a folder holding one file of 600 words (no embedder call
\* raising) the index holds exactly 4 entries, for the windows that start
\* at words 0, 160, 320 and 480.
C9_DefaultChunking ==
    (pc = "idle" /\ outcome = "returned" /\ runs = 1 /\ ~faulty)
    => /\ Cardinality(collection) = 4
       /\ {e.document[1] : e \in collection}
            = {19968 + 1, 19968 + 161, 19968 + 321, 19968 + 481}

\* The indices of echunks whose embedding succeeded: the chunk is not empty
\* after cleaning and its embedder call did not raise.
C5_Succeeded ==
    {idx \in 1..Len(echunks) : CallsEmbedder(echunks[idx]) /\ idx \notin eraises}

\* C5: encode_chunks_parallel never raises, and it returns (in cleaned form)
\* exactly the chunks whose embedding succeeded, each once: for every text,
\* the number of places of the returned list holding it is the number of
\* succeeded chunks that clean to it.  Failed and empty-after-cleaning
\* chunks are left out.
C5_EncodeIsolation ==
    /\ epc # "raised"
    /\ epc = "returned" =>
          /\ Len(final_chunks) = Cardinality(C5_Succeeded)
          /\ \A idx \in C5_Succeeded :
                LET t == clean_text_for_storage(echunks[idx])
                IN  Cardinality({p \in 1..Len(final_chunks) : final_chunks[p] = t})
                    = Cardinality({j \in C5_Succeeded :
                                     clean_text_for_storage(echunks[j]) = t})

\* C5 witness: a call has returned in which one chunk's embedder call
\* raised, one chunk was empty after cleaning and one chunk succeeded.
C5_Witness ==
    /\ epc = "returned"
    /\ eraises # {}
    /\ \E idx \in 1..Len(echunks) : ~CallsEmbedder(echunks[idx])
    /\ Len(final_chunks) = 1
    /\ Len(echunks) = 3

\* C8 witness: the worked example has run: 12 words, chunk_size 5 and
\* overlap 2 gave four chunks, the last one (start 9) holding three words.
C8_Witness ==
    /\ cpc = "done"
    /\ ctext = TwelveWords /\ csize = 5 /\ coverlap = 2
    /\ Len(cwords) = 12
    /\ Len(cchunks) = 4
    /\ cchunks[2] = <<100, 32, 101, 32, 102, 32, 103, 32, 104>>
    /\ cchunks[4] = <<106, 32, 107, 32, 108>>


\* C10: once the filter is built, it has a modification-time constraint
\* exactly when the request gives max_age_days (0 included), with the cutoff
\* max_age_days days before now; it has a type constraint exactly when the
\* request gives a non-empty list of types; and no candidate is weighted for
\* recency with a max_age_days the filter does not carry.
C10_FilterConstruction ==
    spc = "done"
    => /\ (swhere.mtime # <<>>) <=> (sreq.max_age_days # <<>>)
       /\ swhere.mtime # <<>>
            => swhere.mtime[1].gte
                  = snow - sreq.max_age_days[1] * SecondsPerDay
       /\ (swhere.type # <<>>)
            <=> (sreq.types # <<>> /\ sreq.types[1] # <<>>)
       /\ swhere.type # <<>> => swhere.type[1].in = sreq.types[1]
       /\ (sk > 0 /\ sreq.max_age_days # <<>>) => swhere.mtime # <<>>

\* The place of the first candidate with text d in the list the index
\* returned.
FirstWith(d) ==
    CHOOSE k \in 1..Len(scands) :
        scands[k].document = d /\ \A h \in 1..(k - 1) : scands[h].document # d

\* The place in the list the index returned of the candidate with this id.
PlaceOf(id) == CHOOSE k \in 1..Len(scands) : scands[k].id = id

\* C11: the results of search hold exactly one result for each distinct
\* text among the candidates (so no candidate with a text of its own is
\* dropped), and the result for a text carries the id and metadata of the
\* first candidate with that text and the score computed from that
\* candidate's distance and metadata.
C11_Deduplication ==
    spc = "done" =>
       /\ \A a, b \in 1..Len(sresults) :
             sresults[a].text = sresults[b].text => a = b
       /\ {sresults[a].text : a \in 1..Len(sresults)}
             = {scands[k].document : k \in 1..Len(scands)}
       /\ \A a \in 1..Len(sresults) :
             LET r == sresults[a]
                 c == scands[FirstWith(r.text)]
             IN  /\ r.id = c.id
                 /\ r.source = c.metadata.source
                 /\ r.type = c.metadata.type
                 /\ r.path = c.metadata.path
                 /\ r.score = final_score(QWords(sreq.query), c.document,
                                          c.metadata, c.distance,
                                          sreq.max_age_days)

\* C11 witness: the index returned two candidates with one text and
\* different ids, types and distances, and a third with another text; the
\* response holds the first of the two and the third.
C11_Witness ==
    /\ spc = "done"
    /\ Len(scands) = 3
    /\ scands[1].document = scands[2].document
    /\ scands[1].id # scands[2].id
    /\ scands[1].metadata.type # scands[2].metadata.type
    /\ scands[1].distance # scands[2].distance
    /\ {sresults[a].id : a \in 1..Len(sresults)} = {scands[1].id, scands[3].id}

\* C12: the results are in non-increasing order of score, and two results
\* of equal score stand in the order in which the index returned their
\* candidates.
C12_ResultOrdering ==
    spc = "done" =>
       \A a, b \in 1..Len(sresults) :
          a < b =>
             /\ ~FLess(sresults[a].score, sresults[b].score)
             /\ sresults[a].score = sresults[b].score
                   => PlaceOf(sresults[a].id) < PlaceOf(sresults[b].id)

\* C12 witness: a response in which the sort moved a later candidate in
\* front of an earlier one and kept two results of equal score in the
\* order of their candidates.
C12_Witness ==
    /\ spc = "done"
    /\ \E a, b \in 1..Len(sresults) :
          a < b /\ PlaceOf(sresults[a].id) > PlaceOf(sresults[b].id)
    /\ \E a, b \in 1..Len(sresults) :
          a < b /\ sresults[a].score = sresults[b].score

\* Modification times half a day apart, from half a day after the request
\* back to MaxAgeSteps - 1 half days before it.
AgeGrid == {SearchNow + 43200 - k * 43200 : k \in 0..MaxAgeSteps}

\* The modification times of the candidates the loop has visited.
VisitedMtimes == {scands[k].metadata.mtime : k \in 1..sk}

\* C13: the recency weight is 1 when max_age_days is unset or the age is
\* negative, exactly 0.2 when the age is above max_age_days, however far,
\* and in every case at least 0.2 and at most 1.
C13_RecencyRange ==
    spc \in {"loop", "done"} =>
       \A mtime \in VisitedMtimes \cup AgeGrid :
          LET w   == compute_recency_weight(mtime, sreq.max_age_days)
              age == Frac(snow - mtime, SecondsPerDay)
          IN  /\ sreq.max_age_days = <<>> => w = <<1, 1>>
              /\ age[1] < 0 => w = <<1, 1>>
              /\ ( /\ sreq.max_age_days # <<>>
                   /\ age[1] >= 0
                   /\ FLess(<<sreq.max_age_days[1], 1>>, age) ) => w = <<1, 5>>
              /\ ~FLess(w, <<1, 5>>)
              /\ ~FLess(<<1, 1>>, w)

\* C13 witness: with max_age_days = 1 the loop has weighted a candidate
\* from the future (1), one three days old (0.2) and one exactly one day
\* old, whose weight lies strictly between.
C13_Witness ==
    /\ spc = "done"
    /\ sreq.max_age_days = <<1>>
    /\ {SearchNow + 43200, SearchNow - SecondsPerDay} \subseteq VisitedMtimes
    /\ compute_recency_weight(SearchNow - 3 * SecondsPerDay, sreq.max_age_days)
          = <<1, 5>>
    /\ LET w == compute_recency_weight(SearchNow - SecondsPerDay,
                                       sreq.max_age_days)
       IN  FLess(<<1, 5>>, w) /\ FLess(w, <<1, 1>>)

\* The candidate c as it would be scored with modification time mtime.
ScoreAt(c, mtime) ==
    final_score(QWords(sreq.query), c.document,
                [c.metadata EXCEPT !.mtime = mtime], c.distance,
                sreq.max_age_days)

\* C14: with the request, the distance and the text fixed, a candidate
\* with a later modification time (a smaller age) never gets a lower score
\* than with an earlier one, whichever branches of the weight the two ages
\* fall in.
C14_ScoreMonotoneInAge ==
    spc \in {"loop", "done"} =>
       \A k \in 1..sk :
          LET score == [m \in VisitedMtimes \cup AgeGrid |-> ScoreAt(scands[k], m)]
          IN  \A m1, m2 \in DOMAIN score :
                 m1 >= m2 => ~FLess(score[m1], score[m2])

\* C14 witness: with max_age_days = 2 a scored candidate keeps its score
\* from a future modification time to age 0, loses score from age 0 to the
\* boundary age of 2 days, loses again just beyond it, and stays there.
C14_Witness ==
    /\ spc = "done"
    /\ sreq.max_age_days = <<2>>
    /\ sk > 0
    /\ LET c == scands[1]
       IN  /\ ScoreAt(c, SearchNow + 43200) = ScoreAt(c, SearchNow)
           /\ FLess(ScoreAt(c, SearchNow - 2 * SecondsPerDay),
                    ScoreAt(c, SearchNow))
           /\ FLess(ScoreAt(c, SearchNow - 2 * SecondsPerDay - 43200),
                    ScoreAt(c, SearchNow - 2 * SecondsPerDay))
           /\ ScoreAt(c, SearchNow - 3 * SecondsPerDay)
                 = ScoreAt(c, SearchNow - 2 * SecondsPerDay - 43200)

\* The extensions ingestion is specified to read.
EligibleSuffixes == {".pdf", ".md", ".txt"}

\* C15: a run does no embedding (and so no add) for a file whose name is
\* already a source in the index with a stored modification time at or
\* after the file's current one.
C15_UpToDateSkip ==
    (pc = "encode" /\ cur[2][2] \in EligibleSuffixes)
    => ~ \E e \in collection :
            e.source = cur[2] /\ e.mtime >= disk[cur].mtime

\* C16: the ordinal of an entry is the position of its text within the
\* document, whatever the order in which the workers completed: in a run
\* without failing chunks, the entry with ordinal k holds the k-th chunk of
\* its file.
C16_OrdinalsFixed ==
    (pc = "idle" /\ outcome = "returned" /\ ~faulty)
    => \A e \in collection :
          LET chunks == chunk_text(read_text_file(disk[e.path]),
                                   DefaultChunkSize, DefaultOverlap)
          IN  /\ e.id[2] < Len(chunks)
              /\ e.document = clean_text_for_storage(chunks[e.id[2] + 1])

\* C17: after a completed run with no upload since it started, the index
\* holds no entry of an earlier version (an older modification time) of a
\* file that now yields no chunk.
C17_ZeroUsableChunks ==
    (pc = "idle" /\ outcome = "returned" /\ changed = {})
    => \A p \in Paths :
          ( /\ disk[p].kind = "file"
            /\ p[2][2] \in {".md", ".txt"}
            /\ chunk_text(read_text_file(disk[p]), DefaultChunkSize,
                          DefaultOverlap) = <<>> )
          => \A e \in EntriesOf(collection, p[2]) : e.mtime >= disk[p].mtime

\* C18: every entry of the index comes from a file directly inside pdfs/,
\* markdown/ or notes/ whose extension is .pdf, .md or .txt.
C18_EligibleFilesOnly ==
    \A e \in collection :
        /\ e.source[2] \in EligibleSuffixes
        /\ e.path[1] \in {"pdfs", "markdown", "notes"}
        /\ e.path[2] = e.source

\* C19: no add uses an id that is already in the index: when
\* encode_chunks_parallel is back with n chunks, none of the ids
\* <doc_id_counter>_0 .. <doc_id_counter>_(n-1) about to be added is the id
\* of an entry an earlier add stored.
C19_IdUniqueness ==
    (pc = "encode" /\ epc = "returned")
    => \A i \in 1..Min(Len(final_chunks), Len(final_embeddings)) :
          \A e \in collection : e.id # <<doc_id_counter, i - 1>>

\* C20: chunk_text terminates for every text and every chunk_size and
\* overlap of either sign, and it never makes more iterations than the
\* text has words.
C20_ChunkerTerminates ==
    /\ <>(cpc = "done")
    /\ [](cpc # "call" => citer <= Len(cwords))

\* C20 witness: a call with overlap >= chunk_size on a text of several
\* words has returned after one iteration per word.
C20_Witness ==
    /\ cpc = "done"
    /\ coverlap >= csize
    /\ Len(cwords) >= 2
    /\ citer = Len(cwords)


============================================================================
